---- MODULE Spec2Model ----
(***************************************************************************)
(* State-machine model of the smart-store scripts:                         *)
(*   scripts/OLAP/olap_cubing.py  main(): ingest -> calendar columns ->    *)
(*                                create_olap_cube -> write                *)
(*   scripts/dw_create.py         module load -> create_dw                 *)
(* and of a direct call of create_olap_cube with a caller's frame,         *)
(* dimensions and metrics.                                                 *)
(*                                                                         *)
(* Representation.                                                         *)
(*  - A Python string that is used as a column or function name is a       *)
(*    sequence of tokens: every underscore is the token "_" and every      *)
(*    maximal run of other characters is one token, so "product_id" is     *)
(*    <<"product", "_", "id">>.  Concatenation is \o, and two names are    *)
(*    equal as strings iff they are equal as token sequences.              *)
(*  - A cell value is None (<<>>, pandas NaN/None) or a one-element        *)
(*    sequence <<v>>.                                                      *)
(*  - A DataFrame is [columns |-> sequence of labels, rows |-> sequence    *)
(*    of rows], a row being the sequence of its cells in column order.     *)
(*  - A dict is the sequence of its items in insertion order.              *)
(***************************************************************************)
EXTENDS Integers, Sequences, FiniteSets

\* Largest number of records of the sale table.
MaxRecs == 2

None == <<>>

---------------------------------------------------------------------------
\* Column and function names

transaction_id == <<"transaction", "_", "id">>
sale_ids == <<"sale", "_", "ids">>
Quarter == <<"Quarter">>
product_id == <<"product", "_", "id">>
region_ == <<"region", "_">>
sale_amount_usd == <<"sale", "_", "amount", "_", "usd">>
discount_percent == <<"discount", "_", "percent">>
discount_percent_sum == <<"discount", "_", "percent", "_", "sum">>
sale_date == <<"sale", "_", "date">>
customer_id == <<"customer", "_", "id">>
store_id == <<"store", "_", "id">>
campaign_id == <<"campaign", "_", "id">>
payment_type == <<"payment", "_", "type">>
unit_price_usd == <<"unit", "_", "price", "_", "usd">>
DayOfWeek == <<"DayOfWeek">>
Month == <<"Month">>
Year == <<"Year">>

f_sum == <<"sum">>
f_mean == <<"mean">>
f_count == <<"count">>
f_min == <<"min">>
f_max == <<"max">>
f_total == <<"total">>

\* The aggregation names the grouped column object has a method for.
GroupByMethods == {f_sum, f_mean, f_count, f_min, f_max}

---------------------------------------------------------------------------
\* Sequence helpers

Range(s) == {s[i] : i \in DOMAIN s}

RECURSIVE Concat(_)
Concat(ss) == IF ss = <<>> THEN <<>> ELSE Head(ss) \o Concat(Tail(ss))

RECURSIVE SumSeq(_)
SumSeq(s) == IF s = <<>> THEN 0 ELSE Head(s) + SumSeq(Tail(s))

RECURSIVE GCD(_, _)
GCD(a, b) == IF b = 0 THEN a ELSE GCD(b, a % b)

\* str.rstrip("_")
RECURSIVE rstrip(_)
rstrip(col) ==
    IF col # <<>> /\ col[Len(col)] = "_"
    THEN rstrip(SubSeq(col, 1, Len(col) - 1))
    ELSE col

\* f"{column}_{func}"
Format(column, func) == column \o <<"_">> \o func

---------------------------------------------------------------------------
\* generate_column_names(dimensions, metrics)

\* The names one metrics item appends: one per function of a list, or one
\* for a bare string (agg_funcs then holds that single function).
MetricNames(item) ==
    [k \in 1..Len(item.agg_funcs) |-> Format(item.column, item.agg_funcs[k])]

generate_column_names(dims, mets) ==
    LET column_names == dims \o Concat([i \in 1..Len(mets) |-> MetricNames(mets[i])])
    IN  [i \in 1..Len(column_names) |-> rstrip(column_names[i])]

---------------------------------------------------------------------------
\* pandas operations used by create_olap_cube

\* Position of a column name in a frame's header.
ColIndex(df, name) == CHOOSE j \in DOMAIN df.columns : df.columns[j] = name

\* The cells of one column, in row order.
Column(rows, j) == [i \in 1..Len(rows) |-> rows[i][j]]

\* The group key of a row: its cells in the grouping columns, in order.
KeyOf(df, by, row) == [d \in 1..Len(by) |-> row[ColIndex(df, by[d])]]

\* Since groupby's dropna defaults to True, a row with a null in any
\* grouping column belongs to no group.
HasNull(key) == \E d \in DOMAIN key : key[d] = None

RECURSIVE KeyLess(_, _)
KeyLess(a, b) ==
    IF a = <<>> THEN FALSE
    ELSE IF a[1][1] < b[1][1] THEN TRUE
    ELSE IF a[1][1] > b[1][1] THEN FALSE
    ELSE KeyLess(Tail(a), Tail(b))

\* Since groupby's sort defaults to True, the groups come in ascending
\* (lexicographic) key order.
RECURSIVE SortKeys(_)
SortKeys(S) ==
    IF S = {} THEN <<>>
    ELSE LET m == CHOOSE x \in S : \A y \in S \ {x} : KeyLess(x, y)
         IN  <<m>> \o SortKeys(S \ {m})

GroupKeys(df, by) ==
    SortKeys({k \in {KeyOf(df, by, df.rows[i]) : i \in DOMAIN df.rows} : ~HasNull(k)})

\* The rows of one group, in the order of the frame.
GroupRows(df, by, key) ==
    LET Member(row) == KeyOf(df, by, row) = key
    IN  SelectSeq(df.rows, Member)

\* sales_df.groupby(dimensions): KeyError for a grouping column the frame
\* does not have.
GroupByError(df, by) ==
    IF \E d \in DOMAIN by : by[d] \notin Range(df.columns) THEN "KeyError" ELSE "ok"

NoGroupBy == [bound |-> FALSE, by |-> <<>>, keys |-> <<>>]

groupby(df, by) == [bound |-> TRUE, by |-> by, keys |-> GroupKeys(df, by)]

\* The numbers of the non-null cells of a column.
NonNull(cells) ==
    LET NotNone(c) == c # None
        kept == SelectSeq(cells, NotNone)
    IN  [i \in 1..Len(kept) |-> kept[i][1]]

Fraction(n, d) == [num |-> n \div GCD(n, d), den |-> d \div GCD(n, d)]

agg_sum(cells) == <<SumSeq(NonNull(cells))>>

agg_count(cells) == <<Len(NonNull(cells))>>

\* agg_mean with the mean taken over all cells, null ones included.
agg_mean_over_all(cells) ==
    LET vals == NonNull(cells)
    IN  IF vals = <<>> THEN None ELSE <<Fraction(SumSeq(vals), Len(cells))>>

agg_mean(cells) ==
    LET vals == NonNull(cells)
    IN  IF vals = <<>> THEN None ELSE <<Fraction(SumSeq(vals), Len(vals))>>

agg_min(cells) ==
    LET vals == NonNull(cells)
    IN  IF vals = <<>> THEN None
        ELSE <<CHOOSE v \in Range(vals) : \A w \in Range(vals) : v <= w>>

agg_max(cells) ==
    LET vals == NonNull(cells)
    IN  IF vals = <<>> THEN None
        ELSE <<CHOOSE v \in Range(vals) : \A w \in Range(vals) : v >= w>>

\* getattr(grouped_column, func)()
Aggregate(func, cells) ==
    CASE func = f_sum -> agg_sum(cells)
      [] func = f_mean -> agg_mean(cells)
      [] func = f_count -> agg_count(cells)
      [] func = f_min -> agg_min(cells)
      [] func = f_max -> agg_max(cells)

\* grouped.agg(metrics): KeyError for a metric column the frame does not
\* have, AttributeError for a function name that is no groupby method.
AggError(df, mets) ==
    IF \E i \in DOMAIN mets : mets[i].column \notin Range(df.columns)
    THEN "KeyError"
    ELSE IF \E i \in DOMAIN mets : \E k \in DOMAIN mets[i].agg_funcs :
                mets[i].agg_funcs[k] \notin GroupByMethods
    THEN "AttributeError"
    ELSE "ok"

\* The column labels of grouped.agg(metrics).reset_index(): a label is a
\* pair <<name, function>>; the function level is empty for a grouping
\* column, and for every column when no metric has a list of functions.
AggLabels(by, mets) ==
    LET flat == \A i \in DOMAIN mets : ~mets[i].is_list
        Labels(item) ==
            [k \in 1..Len(item.agg_funcs) |->
                <<item.column, IF flat THEN <<>> ELSE item.agg_funcs[k]>>]
    IN  [d \in 1..Len(by) |-> <<by[d], <<>>>>]
        \o Concat([i \in 1..Len(mets) |-> Labels(mets[i])])

\* The aggregate cells of one group, in metrics order.
AggCells(df, mets, rows) ==
    LET Cells(item) ==
            [k \in 1..Len(item.agg_funcs) |->
                Aggregate(item.agg_funcs[k], Column(rows, ColIndex(df, item.column)))]
    IN  Concat([i \in 1..Len(mets) |-> Cells(mets[i])])

\* grouped.agg(metrics).reset_index(): one row per group, in group order.
agg(df, g, mets) ==
    [columns |-> AggLabels(g.by, mets),
     rows |-> [n \in 1..Len(g.keys) |->
                 g.keys[n] \o AggCells(df, mets, GroupRows(df, g.by, g.keys[n]))]]

\* The elements of a sequence, each once, in order of first appearance.
RECURSIVE Distinct(_)
Distinct(s) ==
    IF s = <<>> THEN <<>>
    ELSE LET rest == Distinct(SubSeq(s, 1, Len(s) - 1))
         IN  IF s[Len(s)] \in Range(rest) THEN rest ELSE Append(rest, s[Len(s)])

\* apply_list with the groups in order of first appearance (sort=False)
\* instead of key order.
apply_list_first_seen(df, g) ==
    LET NotNull(k) == ~HasNull(k)
        keys == Distinct(SelectSeq([i \in 1..Len(df.rows) |-> KeyOf(df, g.by, df.rows[i])],
                                   NotNull))
    IN  [n \in 1..Len(keys) |->
            LET rows == GroupRows(df, g.by, keys[n])
            IN  [i \in 1..Len(rows) |-> rows[i][ColIndex(df, transaction_id)][1]]]

\* grouped["transaction_id"].apply(list).reset_index(drop=True): per group,
\* in group order, the identifiers of its rows in frame order.
apply_list(df, g) ==
    [n \in 1..Len(g.keys) |->
        LET rows == GroupRows(df, g.by, g.keys[n])
        IN  [i \in 1..Len(rows) |-> rows[i][ColIndex(df, transaction_id)][1]]]

\* cube[name] = series: the series is aligned on the row index 0..n-1; an
\* existing column of that name is overwritten, else one is appended.
setitem(c, name, series) ==
    IF \E j \in DOMAIN c.columns : c.columns[j][1] = name
    THEN LET at == CHOOSE j \in DOMAIN c.columns : c.columns[j][1] = name
         IN  [columns |-> c.columns,
              rows |-> [n \in 1..Len(c.rows) |-> [c.rows[n] EXCEPT ![at] = series[n]]]]
    ELSE [columns |-> c.columns \o <<<<name, <<>>>>>>,
          rows |-> [n \in 1..Len(c.rows) |-> c.rows[n] \o <<series[n]>>]]

\* cube.columns = names: ValueError when the lengths differ.
SetColumnsError(c, names) ==
    IF Len(names) # Len(c.columns) THEN "ValueError" ELSE "ok"

NoFrame == [columns |-> <<>>, rows |-> <<>>]

---------------------------------------------------------------------------
\* main(), step 2: the calendar columns

\* A date is <<year, month, day>>, the text of a sale_date cell as well as
\* its parsed value.
IsLeap(y) == (y % 4 = 0 /\ y % 100 # 0) \/ y % 400 = 0

DaysIn(y, m) ==
    IF m = 2 THEN (IF IsLeap(y) THEN 29 ELSE 28)
    ELSE IF m \in {4, 6, 9, 11} THEN 30 ELSE 31

\* Whether pd.to_datetime parses the text.
Parseable(date) ==
    /\ date[2] \in 1..12
    /\ date[3] \in 1..DaysIn(date[1], date[2])

DayNames ==
    <<"Sunday", "Monday", "Tuesday", "Wednesday", "Thursday", "Friday", "Saturday">>

\* .dt.day_name()
day_name(date) ==
    LET shift == <<0, 3, 2, 5, 0, 3, 5, 1, 4, 6, 2, 4>>
        y == IF date[2] < 3 THEN date[1] - 1 ELSE date[1]
    IN  DayNames[((y + y \div 4 - y \div 100 + y \div 400 + shift[date[2]] + date[3]) % 7) + 1]

\* .dt.quarter
quarter(date) == ((date[2] - 1) \div 3) + 1

\* pd.to_datetime(sales_df["sale_date"]) raises when a text is no date; a
\* null stays null (NaT).
ToDatetimeError(df) ==
    IF \E i \in DOMAIN df.rows :
          LET cell == df.rows[i][ColIndex(df, sale_date)]
          IN  cell # None /\ ~Parseable(cell[1])
    THEN "ValueError"
    ELSE "ok"

\* The four columns main() adds; each is null where the date is null.
CalendarCells(cell) ==
    IF cell = None THEN <<None, None, None, None>>
    ELSE <<<<day_name(cell[1])>>, <<cell[1][2]>>, <<cell[1][1]>>, <<quarter(cell[1])>>>>

add_calendar_columns(df) ==
    [columns |-> df.columns \o <<DayOfWeek, Month, Year, Quarter>>,
     rows |-> [i \in 1..Len(df.rows) |->
                 df.rows[i] \o CalendarCells(df.rows[i][ColIndex(df, sale_date)])]]

---------------------------------------------------------------------------
\* Inputs

\* Identifier of the first sale of the documented example table.
FirstId == 550

\* Identifiers are unique (PRIMARY KEY).  A SELECT without ORDER BY fixes
\* no row order, and neither does a caller's frame: the rows ascend or
\* descend in identifier.
IdOrders(n) ==
    {[i \in 1..n |-> FirstId + i - 1], [i \in 1..n |-> FirstId + n - i]}

\* The columns of the sale table, as SELECT * FROM sale names them.
SaleHeader ==
    <<transaction_id, sale_date, customer_id, product_id, store_id,
      campaign_id, sale_amount_usd, discount_percent, payment_type>>

\* The cells of a sale besides its identifier, in SaleHeader order.  The
\* date is null, one of two dates or a text that is no date; the
\* customer may be null; sale_amount_usd is NOT NULL; store, campaign,
\* discount and payment type are left null.
SaleData ==
    {<<date, customer, product, None, None, amount, None, None>> :
        date \in {None, <<<<2024, 1, 6>>>>, <<<<2024, 4, 16>>>>, <<<<2024, 13, 45>>>>},
        customer \in {None, <<1001>>},
        product \in {<<101>>, <<102>>},
        amount \in {<<10>>, <<20>>}}

SaleRows(n) ==
    {[i \in 1..n |-> <<<<ids[i]>>>> \o data[i]] :
        ids \in IdOrders(n), data \in [1..n -> SaleData]}

\* The frames of n sales that ingest_sales_data_from_dw may return.
SaleFrames(n) == {[columns |-> SaleHeader, rows |-> r] : r \in SaleRows(n)}

\* main()'s dimensions.
MainDimensions == <<Quarter, product_id, customer_id>>

Item(column, agg_funcs, is_list) ==
    [column |-> column, agg_funcs |-> agg_funcs, is_list |-> is_list]

\* main()'s metrics.
MainMetrics ==
    <<Item(sale_amount_usd, <<f_sum, f_mean>>, TRUE),
      Item(transaction_id, <<f_count>>, FALSE)>>

\* Arguments of a direct call of create_olap_cube (the function takes any
\* frame, dimension list and metrics).  The frames have the identifier, two
\* columns that may serve as dimensions and one metric column, all three
\* nullable; the second header has a dimension name ending in an underscore
\* and one that reads like an aggregate.
ArgHeaders ==
    {<<transaction_id, Quarter, product_id, discount_percent>>,
     <<transaction_id, region_, discount_percent_sum, discount_percent>>}

ArgData ==
    {<<a, b, m>> : a \in {None, <<1>>, <<2>>}, b \in {None, <<1>>},
                   m \in {None, <<10>>, <<20>>}}

ArgRows(n) ==
    {[i \in 1..n |-> <<<<ids[i]>>>> \o data[i]] :
        ids \in IdOrders(n), data \in [1..n -> ArgData]}

ArgFrames(n) == {[columns |-> h, rows |-> r] : h \in ArgHeaders, r \in ArgRows(n)}

\* Dimension lists of a direct call: non-empty, without repetition, over
\* the frame's two dimension columns; and one naming a column the frame
\* does not have.
DimensionSpecs(df) ==
    {<<df.columns[2]>>, <<df.columns[2], df.columns[3]>>,
     <<df.columns[3], df.columns[2]>>, <<DayOfWeek>>}

\* Metrics of a direct call: lists and bare strings, a column the frame
\* does not have, a function that is no groupby method.
MetricSpecs ==
    {<<Item(discount_percent, <<f_sum, f_mean, f_min, f_max>>, TRUE),
       Item(transaction_id, <<f_count>>, FALSE)>>,
     <<Item(discount_percent, <<f_count>>, FALSE)>>,
     <<Item(unit_price_usd, <<f_sum>>, FALSE)>>,
     <<Item(discount_percent, <<f_sum, f_total>>, TRUE)>>}

---------------------------------------------------------------------------
\* State

VARIABLES
    script,            \* what runs: the script "olap_cubing" or "dw_create",
                       \* or a direct call of "create_olap_cube"
    pc,                \* position in the script
    log,               \* the logger's records, oldest first
    raised,            \* the exception that left main(), or "none"
    sales_df,          \* the frame: main()'s, then create_olap_cube's
    dimensions,        \* create_olap_cube's dimensions
    metrics,           \* create_olap_cube's metrics
    grouped,           \* create_olap_cube: the groupby object
    cube,              \* create_olap_cube: the cube frame
    explicit_columns,  \* create_olap_cube: the generated names
    db_file,           \* dw_create: whether the database file exists
    conn,              \* dw_create: "unbound", "open" or "closed"
    tables,            \* dw_create: the tables created
    committed          \* dw_create: whether conn.commit() succeeded

vars ==
    <<script, pc, log, raised, sales_df, dimensions, metrics, grouped, cube,
      explicit_columns, db_file, conn, tables, committed>>

olap_vars == <<sales_df, dimensions, metrics, grouped, cube, explicit_columns>>

dw_vars == <<db_file, conn, tables, committed>>

\* A log record: its level, the function that logged it and its message.
Info(fn, msg) == [level |-> "INFO", fn |-> fn, msg |-> msg]

Error(fn, msg) == [level |-> "ERROR", fn |-> fn, msg |-> msg]

Init ==
    /\ script \in {"olap_cubing", "dw_create", "create_olap_cube"}
    /\ pc = "start"
    /\ log = <<>>
    /\ raised = "none"
    /\ sales_df = NoFrame
    /\ dimensions = <<>>
    /\ metrics = <<>>
    /\ grouped = NoGroupBy
    /\ cube = NoFrame
    /\ explicit_columns = <<>>
    /\ db_file \in IF script = "dw_create" THEN BOOLEAN ELSE {FALSE}
    /\ conn = "unbound"
    /\ tables = {}
    /\ committed = FALSE

---------------------------------------------------------------------------
\* scripts/OLAP/olap_cubing.py

\* An exception leaves main() or the direct call: nothing handles it there.
Raise(exc) ==
    /\ raised' = exc
    /\ pc' = "raised"

\* main(): the opening log record.
OlapMainStart ==
    /\ script = "olap_cubing"
    /\ pc = "start"
    /\ log' = Append(log, Info("main", "Starting OLAP Cubing process..."))
    /\ pc' = "ingest"
    /\ UNCHANGED <<script, raised, olap_vars, dw_vars>>

\* ingest_sales_data_from_dw(): the sale table is read.  A failure of the
\* read is logged and raised again.
IngestOk ==
    /\ script = "olap_cubing"
    /\ pc = "ingest"
    /\ \E n \in 0..MaxRecs : \E df \in SaleFrames(n) : sales_df' = df
    /\ log' = Append(log, Info("ingest_sales_data_from_dw", "Sales data successfully loaded from SQLite data warehouse."))
    /\ pc' = "calendar"
    /\ UNCHANGED <<script, raised, dimensions, metrics, grouped, cube,
                   explicit_columns, dw_vars>>

IngestFails ==
    /\ script = "olap_cubing"
    /\ pc = "ingest"
    /\ log' = Append(log, Error("ingest_sales_data_from_dw", "Error loading sale table data from data warehouse"))
    /\ Raise("DatabaseError")
    /\ UNCHANGED <<script, olap_vars, dw_vars>>

\* main(), step 2: sale_date is parsed and DayOfWeek, Month, Year and
\* Quarter are added.  The step is in no try block: a text that is no date
\* raises, and the exception leaves main() without a log record.
AddCalendarColumns ==
    /\ script = "olap_cubing"
    /\ pc = "calendar"
    /\ IF ToDatetimeError(sales_df) # "ok"
       THEN /\ Raise(ToDatetimeError(sales_df))
            /\ UNCHANGED sales_df
       ELSE /\ sales_df' = add_calendar_columns(sales_df)
            /\ pc' = "define"
            /\ UNCHANGED raised
    /\ UNCHANGED <<script, log, dimensions, metrics, grouped, cube,
                   explicit_columns, dw_vars>>

\* main(), steps 3 and 4: the dimensions and metrics it passes to
\* create_olap_cube.
DefineSpec ==
    /\ script = "olap_cubing"
    /\ pc = "define"
    /\ dimensions' = MainDimensions
    /\ metrics' = MainMetrics
    /\ pc' = "groupby"
    /\ UNCHANGED <<script, log, raised, sales_df, grouped, cube,
                   explicit_columns, dw_vars>>

\* A direct call create_olap_cube(sales_df, dimensions, metrics).
Call ==
    /\ script = "create_olap_cube"
    /\ pc = "start"
    /\ \E n \in 0..MaxRecs : \E df \in ArgFrames(n) :
          \E dims \in DimensionSpecs(df), mets \in MetricSpecs :
              /\ sales_df' = df
              /\ dimensions' = dims
              /\ metrics' = mets
    /\ pc' = "groupby"
    /\ UNCHANGED <<script, log, raised, grouped, cube, explicit_columns, dw_vars>>

\* create_olap_cube runs for main() and for a direct call.
InCube == script \in {"olap_cubing", "create_olap_cube"}

\* create_olap_cube's handler: log the error, raise it again.
CubeFails(exc) ==
    /\ log' = Append(log, Error("create_olap_cube", "Error creating OLAP cube"))
    /\ Raise(exc)

\* create_olap_cube: grouped = sales_df.groupby(dimensions)
CubeGroupBy ==
    /\ InCube
    /\ pc = "groupby"
    /\ IF GroupByError(sales_df, dimensions) # "ok"
       THEN /\ CubeFails(GroupByError(sales_df, dimensions))
            /\ UNCHANGED grouped
       ELSE /\ grouped' = groupby(sales_df, dimensions)
            /\ pc' = "agg"
            /\ UNCHANGED <<log, raised>>
    /\ UNCHANGED <<script, sales_df, dimensions, metrics, cube,
                   explicit_columns, dw_vars>>

\* create_olap_cube: cube = grouped.agg(metrics).reset_index()
CubeAgg ==
    /\ InCube
    /\ pc = "agg"
    /\ IF AggError(sales_df, metrics) # "ok"
       THEN /\ CubeFails(AggError(sales_df, metrics))
            /\ UNCHANGED cube
       ELSE /\ cube' = agg(sales_df, grouped, metrics)
            /\ pc' = "sale_ids"
            /\ UNCHANGED <<log, raised>>
    /\ UNCHANGED <<script, sales_df, dimensions, metrics, grouped,
                   explicit_columns, dw_vars>>

\* create_olap_cube:
\*   cube["sale_ids"] = grouped["transaction_id"].apply(list).reset_index(drop=True)
CubeSaleIds ==
    /\ InCube
    /\ pc = "sale_ids"
    /\ cube' = setitem(cube, sale_ids, apply_list(sales_df, grouped))
    /\ pc' = "rename"
    /\ UNCHANGED <<script, log, raised, sales_df, dimensions, metrics, grouped,
                   explicit_columns, dw_vars>>

\* create_olap_cube: the names are generated, "sale_ids" is appended, they
\* replace the cube's labels, the success is logged and the cube returned.
CubeRename ==
    /\ InCube
    /\ pc = "rename"
    /\ explicit_columns' = Append(generate_column_names(dimensions, metrics), sale_ids)
    /\ IF SetColumnsError(cube, explicit_columns') # "ok"
       THEN /\ CubeFails(SetColumnsError(cube, explicit_columns'))
            /\ UNCHANGED cube
       ELSE /\ cube' = [cube EXCEPT !.columns = explicit_columns']
            /\ log' = Append(log, Info("create_olap_cube", "OLAP cube created"))
            /\ pc' = IF script = "olap_cubing" THEN "write" ELSE "returned"
            /\ UNCHANGED raised
    /\ UNCHANGED <<script, sales_df, dimensions, metrics, grouped, dw_vars>>

\* write_cube_to_csv(): a failure of the write is logged and raised again.
WriteOk ==
    /\ script = "olap_cubing"
    /\ pc = "write"
    /\ log' = Append(log, Info("write_cube_to_csv", "OLAP cube saved"))
    /\ pc' = "finish"
    /\ UNCHANGED <<script, raised, olap_vars, dw_vars>>

WriteFails ==
    /\ script = "olap_cubing"
    /\ pc = "write"
    /\ log' = Append(log, Error("write_cube_to_csv", "Error saving OLAP cube to CSV file"))
    /\ Raise("OSError")
    /\ UNCHANGED <<script, olap_vars, dw_vars>>

\* main(): the closing log records.
OlapMainFinish ==
    /\ script = "olap_cubing"
    /\ pc = "finish"
    /\ log' = log \o <<Info("main", "OLAP Cubing process completed successfully."),
                       Info("main", "Please see outputs")>>
    /\ pc' = "done"
    /\ UNCHANGED <<script, raised, olap_vars, dw_vars>>

---------------------------------------------------------------------------
\* scripts/dw_create.py

\* Module level: an existing database file is deleted; a failure to delete
\* it is logged and the script goes on.
DwDeleteExisting ==
    /\ script = "dw_create"
    /\ pc = "start"
    /\ IF db_file
       THEN \E deleted \in BOOLEAN :
               IF deleted
               THEN /\ db_file' = FALSE
                    /\ log' = Append(log, Info("<module>", "Existing database deleted."))
               ELSE /\ log' = Append(log, Error("<module>", "Error deleting existing database"))
                    /\ UNCHANGED db_file
       ELSE UNCHANGED <<db_file, log>>
    /\ pc' = "main"
    /\ UNCHANGED <<script, raised, olap_vars, conn, tables, committed>>

\* main(): the opening log record.
DwMainStart ==
    /\ script = "dw_create"
    /\ pc = "main"
    /\ log' = Append(log, Info("main", "Starting data warehouse creation..."))
    /\ pc' = "connect"
    /\ UNCHANGED <<script, raised, olap_vars, dw_vars>>

\* create_dw: conn = sqlite3.connect(DB_PATH); cursor = conn.cursor()
DwConnectOk ==
    /\ script = "dw_create"
    /\ pc = "connect"
    /\ conn' = "open"
    /\ db_file' = TRUE
    /\ pc' = "customer"
    /\ UNCHANGED <<script, log, raised, olap_vars, tables, committed>>

\* create_dw: connect() raises sqlite3.Error.  The handler logs it; the
\* finally clause then reads conn, which was never bound, and the
\* UnboundLocalError leaves create_dw and main().
DwConnectFails ==
    /\ script = "dw_create"
    /\ pc = "connect"
    /\ log' = Append(log, Error("create_dw", "Error connecting to the database"))
    /\ Raise("UnboundLocalError")
    /\ UNCHANGED <<script, olap_vars, dw_vars>>

\* create_<table>_table(cursor), called by create_dw.
\*   "ok":     the table is created and that is logged;
\*   "sqlite": execute raises sqlite3.Error: logged, and the function
\*             returns normally, so create_dw goes on with the next step;
\*   "other":  execute raises another exception, which the function does
\*             not catch: create_dw's handler for Exception logs it, the
\*             finally clause closes the connection and create_dw returns.
CreateTable(at, table, next) ==
    /\ script = "dw_create"
    /\ pc = at
    /\ \E outcome \in {"ok", "sqlite", "other"} :
          CASE outcome = "ok" ->
                  /\ tables' = tables \cup {table}
                  /\ log' = Append(log, Info("create_" \o table \o "_table", table \o " table created."))
                  /\ pc' = next
                  /\ UNCHANGED conn
            [] outcome = "sqlite" ->
                  /\ log' = Append(log, Error("create_" \o table \o "_table", "Error creating " \o table \o " table"))
                  /\ pc' = next
                  /\ UNCHANGED <<tables, conn>>
            [] outcome = "other" ->
                  /\ log' = Append(log, Error("create_dw", "An unexpected error occurred"))
                  /\ conn' = "closed"
                  /\ pc' = "complete"
                  /\ UNCHANGED tables
    /\ UNCHANGED <<script, raised, olap_vars, db_file, committed>>

create_customer_table == CreateTable("customer", "customer", "product")

create_product_table == CreateTable("product", "product", "sale")

create_sale_table == CreateTable("sale", "sale", "commit")

\* create_dw: conn.commit(); conn.close(); the success record; and the
\* finally clause.  A failing commit is logged by the sqlite3.Error handler
\* and create_dw returns normally.
DwCommit ==
    /\ script = "dw_create"
    /\ pc = "commit"
    /\ \E ok \in BOOLEAN :
          IF ok
          THEN /\ committed' = TRUE
               /\ log' = Append(log, Info("create_dw", "Data warehouse created successfully."))
          ELSE /\ log' = Append(log, Error("create_dw", "Error connecting to the database"))
               /\ UNCHANGED committed
    /\ conn' = "closed"
    /\ pc' = "complete"
    /\ UNCHANGED <<script, raised, olap_vars, db_file, tables>>

\* main(): the closing log record, after create_dw returned.
DwMainComplete ==
    /\ script = "dw_create"
    /\ pc = "complete"
    /\ log' = Append(log, Info("main", "Data warehouse creation complete."))
    /\ pc' = "done"
    /\ UNCHANGED <<script, raised, olap_vars, dw_vars>>

---------------------------------------------------------------------------
Next ==
    \/ OlapMainStart
    \/ IngestOk
    \/ IngestFails
    \/ AddCalendarColumns
    \/ DefineSpec
    \/ Call
    \/ CubeGroupBy
    \/ CubeAgg
    \/ CubeSaleIds
    \/ CubeRename
    \/ WriteOk
    \/ WriteFails
    \/ OlapMainFinish
    \/ DwDeleteExisting
    \/ DwMainStart
    \/ DwConnectOk
    \/ DwConnectFails
    \/ create_customer_table
    \/ create_product_table
    \/ create_sale_table
    \/ DwCommit
    \/ DwMainComplete

Spec == Init /\ [][Next]_vars

---------------------------------------------------------------------------
\* Vocabulary of the properties

\* create_olap_cube has returned its cube.
CubeBuilt == InCube /\ pc \in {"write", "finish", "done", "returned"}

\* create_olap_cube has been called.
CubeCalled == InCube /\ pc \notin {"start", "ingest", "calendar", "define"}

\* generate_column_names has returned.
Named == InCube /\ explicit_columns # <<>>

InputRows == DOMAIN sales_df.rows

IdOf(i) == sales_df.rows[i][ColIndex(sales_df, transaction_id)][1]

\* The cell of input record i in the d-th dimension.
DimCell(i, d) == sales_df.rows[i][ColIndex(sales_df, dimensions[d])]

\* The traceability list of a cube row: the cell of its last column.
SaleIdsOf(row) == row[Len(row)]

\* The input records whose dimension tuple is that of cube row n.
Members(n) ==
    {i \in InputRows : \A d \in DOMAIN dimensions : DimCell(i, d) = cube.rows[n][d]}

\* The (column, function) pairs of the metrics, in order; the k-th pair's
\* value is the cell Len(dimensions) + k of a cube row.
MetricPairs ==
    Concat([i \in 1..Len(metrics) |->
              [k \in 1..Len(metrics[i].agg_funcs) |->
                  <<metrics[i].column, metrics[i].agg_funcs[k]>>]])

MetricCell(n, k) == cube.rows[n][Len(dimensions) + k]

\* The input records of a set whose cell in a column is not null.
WithValue(I, column) ==
    {i \in I : sales_df.rows[i][ColIndex(sales_df, column)] # None}

RECURSIVE Total(_, _)
Total(I, column) ==
    IF I = {} THEN 0
    ELSE LET i == CHOOSE x \in I : TRUE
         IN  sales_df.rows[i][ColIndex(sales_df, column)][1] + Total(I \ {i}, column)

\* How often an identifier occurs in the traceability lists of the cube.
Occurrences(id) ==
    LET all == Concat([n \in 1..Len(cube.rows) |-> SaleIdsOf(cube.rows[n])])
    IN  Cardinality({p \in DOMAIN all : all[p] = id})

---------------------------------------------------------------------------
\* Properties

\* C1: partition completeness: once the cube is built, every input record
\* identifier occurs exactly once in the rows' sale_ids lists taken
\* together.
PartitionComplete ==
    CubeBuilt => \A i \in InputRows : Occurrences(IdOf(i)) = 1

\* C2: null dimension handling: a record with a null in a dimension column
\* is in exactly one cube row, and that row's value for the column is null.
NullDimensionKept ==
    CubeBuilt =>
        \A i \in InputRows : \A d \in DOMAIN dimensions :
            DimCell(i, d) = None =>
                /\ Occurrences(IdOf(i)) = 1
                /\ \E n \in DOMAIN cube.rows :
                      /\ IdOf(i) \in Range(SaleIdsOf(cube.rows[n]))
                      /\ cube.rows[n][d] = None

\* C3: configuration errors come first: when the metrics name a column the
\* frame does not have or a function that is not supported, no grouping is
\* performed and no cube is made.
ConfigErrorBeforeGrouping ==
    (CubeCalled /\ AggError(sales_df, metrics) # "ok") =>
        (~grouped.bound /\ cube = NoFrame)

\* C4: column names and their order: the header of the cube is the
\* dimension names as given, then "{metric}_{function}" per metric and
\* function in the order given, then "sale_ids".
HeaderAsSpecified ==
    CubeBuilt =>
        cube.columns =
            dimensions
            \o [k \in 1..Len(MetricPairs) |-> Format(MetricPairs[k][1], MetricPairs[k][2])]
            \o <<sale_ids>>

\* C5: name uniqueness: the generated list of column names never holds the
\* same name twice.
NamesUnique ==
    Named =>
        \A p, q \in DOMAIN explicit_columns :
            explicit_columns[p] = explicit_columns[q] => p = q

\* C6: dimension names are left unchanged: the first len(dimensions)
\* generated names are the dimension names as given.
DimensionNamesKept ==
    Named => \A d \in DOMAIN dimensions : explicit_columns[d] = dimensions[d]

\* C7: count semantics: in every cube row the value of a "count"
\* aggregation is the number of records of the group, the length of the
\* row's sale_ids list.
CountIsGroupSize ==
    CubeBuilt =>
        \A n \in DOMAIN cube.rows : \A k \in DOMAIN MetricPairs :
            MetricPairs[k][2] = f_count =>
                MetricCell(n, k) = <<Len(SaleIdsOf(cube.rows[n]))>>

\* The operations of the repository.
Operations ==
    {"ingest_sales_data_from_dw", "create_olap_cube", "write_cube_to_csv",
     "create_customer_table", "create_product_table", "create_sale_table",
     "create_dw"}

\* C8: error propagation: an operation that logs an error raises it again,
\* so its ERROR record is the last record of the log and the exception has
\* left the run; no success record follows it.
ErrorsPropagate ==
    \A p \in DOMAIN log :
        (log[p].level = "ERROR" /\ log[p].fn \in Operations) =>
            (p = Len(log) /\ pc = "raised")

\* C9: sum and mean per group: in every cube row "sum" is the sum and
\* "mean" the arithmetic mean of the non-null metric values of exactly the
\* records with the row's dimension values; the mean of a group without a
\* non-null value is null, and building the cube raises only for a
\* dimension or metric specification that is in error.
SumMeanPerGroup ==
    /\ CubeBuilt =>
          \A n \in DOMAIN cube.rows : \A k \in DOMAIN MetricPairs :
             LET column == MetricPairs[k][1]
                 valued == WithValue(Members(n), column)
                 cell == MetricCell(n, k)
             IN  /\ MetricPairs[k][2] = f_sum => cell = <<Total(valued, column)>>
                 /\ MetricPairs[k][2] = f_mean =>
                       IF valued = {} THEN cell = None
                       ELSE /\ cell # None
                            /\ cell[1].den > 0
                            /\ cell[1].num * Cardinality(valued)
                                 = cell[1].den * Total(valued, column)
    /\ (CubeCalled /\ Error("create_olap_cube", "Error creating OLAP cube") \in Range(log)) =>
          (GroupByError(sales_df, dimensions) # "ok" \/ AggError(sales_df, metrics) # "ok")

\* C9, witness: main()'s metrics over a group of two records with the
\* amounts 10 and 20 give sum 30, mean 15 and count 2.
SumMeanExample ==
    /\ CubeBuilt
    /\ metrics = MainMetrics
    /\ \E n \in DOMAIN cube.rows :
          /\ {sales_df.rows[i][ColIndex(sales_df, sale_amount_usd)] : i \in Members(n)}
                = {<<10>>, <<20>>}
          /\ MetricCell(n, 1) = <<30>>
          /\ MetricCell(n, 2) = <<[num |-> 15, den |-> 1]>>
          /\ MetricCell(n, 3) = <<2>>

\* C10: traceability lists match their row: the sale_ids list of a cube
\* row holds the identifiers of exactly the input records with the row's
\* dimension values, each once, in input order.
TraceabilityMatchesRow ==
    CubeBuilt =>
        \A n \in DOMAIN cube.rows :
            LET ids == SaleIdsOf(cube.rows[n])
                Pos(id) == CHOOSE i \in InputRows : IdOf(i) = id
            IN  /\ Range(ids) = {IdOf(i) : i \in Members(n)}
                /\ Len(ids) = Cardinality(Members(n))
                /\ \A p, q \in DOMAIN ids : p < q => Pos(ids[p]) < Pos(ids[q])

\* C10, witness: a cube of two rows whose groups appear in the input in the
\* opposite order of the rows, each row with its own record.
TraceabilityExample ==
    /\ CubeBuilt
    /\ Len(cube.rows) = 2
    /\ SaleIdsOf(cube.rows[1]) = <<IdOf(2)>>
    /\ SaleIdsOf(cube.rows[2]) = <<IdOf(1)>>

====
